---- MODULE Spec2Model ----
(***************************************************************************)
(* A model of acme4j-smime/tool/smime-generator.py: the signmail function  *)
(* and the module-level fixture call sites that write its result to disk.  *)
(*                                                                         *)
(* A Python str is a sequence of chunks (TLA+ strings); a chunk stands for *)
(* one or more characters.  The chunks "\r" and "\n" are the characters CR *)
(* and LF, and "U+00F6" is the one non-ASCII character of the model.  A    *)
(* bytes value is a sequence of chunks too; "0xC3" and "0xB6" are single   *)
(* bytes.  None is the empty tuple and a given optional value v is <<v>>.  *)
(***************************************************************************)
EXTENDS Integers, Sequences, FiniteSets, TLC

VARIABLES
    calls,      \* the call sites of the run: a sequence of argument records
    ordered,    \* TRUE: the call sites run in the order written
    fs0,        \* the file system before the run
    fs,         \* the file system: path -> [exists, data]
    done,       \* the call sites whose with-statement has completed
    cur,        \* the call site being executed (0: none yet)
    pc,         \* the statement the interpreter is at
    status,     \* "running", "done" (exit code 0) or "failed" (traceback)
    raised,     \* the exceptions raised so far, in order
    w,          \* the path of the file object open for writing, or NoFile
    body,       \* signmail's local: the inner body (str)
    s,          \* signmail's local: the key pair loaded into SMIME.SMIME()
    p7,         \* signmail's local: the PKCS7 object, None or <<signature>>
    out,        \* signmail's local: the BIO.MemoryBuffer receiving the output
    ret,        \* the value signmail returned, to be handed to w.write
    signlog     \* per call site: None or <<[content, key, flags]>>, what s.sign got

vars == <<calls, ordered, fs0, fs, done, cur, pc, status, raised, w,
          body, s, p7, out, ret, signlog>>

locals == <<body, s, p7, out, ret>>

(***************************************************************************)
(* Bounds of the generic-call specification.                               *)
(***************************************************************************)
MaxTextLen == 1

(***************************************************************************)
(* Optional values and strings.                                            *)
(***************************************************************************)
None == <<>>

Some(v) == <<v>>

CR == "\r"

LF == "\n"

CRLF == <<CR, LF>>

NonAscii == "U+00F6"

\* bytes(text, 'UTF-8'): ASCII chunks are their own encoding, U+00F6 is C3 B6.
RECURSIVE Utf8Encode(_)
Utf8Encode(text) ==
    IF text = <<>> THEN <<>>
    ELSE IF Head(text) = NonAscii
         THEN <<"0xC3", "0xB6">> \o Utf8Encode(Tail(text))
         ELSE <<Head(text)>> \o Utf8Encode(Tail(text))

\* The inverse of the encoding, as a MIME parser reading the file applies it.
RECURSIVE Utf8Decode(_)
Utf8Decode(bytes) ==
    IF bytes = <<>> THEN <<>>
    ELSE IF Len(bytes) >= 2 /\ bytes[1] = "0xC3" /\ bytes[2] = "0xB6"
         THEN <<NonAscii>> \o Utf8Decode(Tail(Tail(bytes)))
         ELSE <<Head(bytes)>> \o Utf8Decode(Tail(bytes))

makebuf(text) == Utf8Encode(text)

RECURSIVE Join(_)
Join(chunks) == IF chunks = <<>> THEN "" ELSE Head(chunks) \o Join(Tail(chunks))

(***************************************************************************)
(* signmail, lines 35-44: the inner body.                                  *)
(***************************************************************************)
MessageIdLine == <<"Message-ID: <A2299BB.FF7788@example.org>">> \o CRLF

\* Variant: the lines end in LF alone.
InnerBodyLF(text, sender, recipient, subject) ==
    <<"Content-Type: message/RFC822; forwarded=no", LF, LF>>
    \o <<"From: ">> \o sender \o <<LF>>
    \o <<"To: ">> \o recipient \o <<LF>>
    \o <<"Subject: ">> \o subject \o <<LF>>
    \o <<"Message-ID: <A2299BB.FF7788@example.org>", LF>>
    \o <<"MIME-Version: 1.0", LF>>
    \o <<"Content-Type: text/plain; charset=utf-8", LF>>
    \o <<LF>>
    \o text
    \o <<LF>>

InnerBody(text, sender, recipient, subject) ==
    <<"Content-Type: message/RFC822; forwarded=no">> \o CRLF \o CRLF
    \o <<"From: ">> \o sender \o CRLF
    \o <<"To: ">> \o recipient \o CRLF
    \o <<"Subject: ">> \o subject \o CRLF
    \o MessageIdLine
    \o <<"MIME-Version: 1.0">> \o CRLF
    \o <<"Content-Type: text/plain; charset=utf-8">> \o CRLF
    \o CRLF
    \o text
    \o CRLF

(***************************************************************************)
(* The M2Crypto calls of lines 46-48 and 56.  The signature is a function  *)
(* of the signed bytes and the key pair; the multipart/signed structure    *)
(* carries the content bytes and the signature between boundary markers.   *)
(***************************************************************************)
PKCS7_DETACHED == "PKCS7_DETACHED"

SmimeSign(key, content, flags) ==
    "PKCS7[" \o key[1] \o "|" \o key[2] \o "|" \o flags \o "|" \o Join(content) \o "]"

MultipartBegin == "<multipart/signed: content part>"

MultipartSignature == "<multipart/signed: application/x-pkcs7-signature part>"

MultipartEnd == "<multipart/signed: end>"

SmimeWrite(buf, pkcs7, data) ==
    buf \o <<MultipartBegin>> \o data \o <<MultipartSignature, pkcs7, MultipartEnd>>

(***************************************************************************)
(* signmail, lines 50-55: the outer envelope headers.                      *)
(***************************************************************************)
\* Variant: "override or inner", which takes an empty override for an omitted one.
EnvelopeValueTruthy(override, inner) ==
    IF override # None /\ override[1] # <<>> THEN override[1] ELSE inner

EnvelopeValue(override, inner) == IF override # None THEN override[1] ELSE inner

OuterFrom(c) == <<"From: ">> \o EnvelopeValue(c.envelopeFrom, c.sender) \o CRLF

OuterTo(c) == <<"To: ">> \o EnvelopeValue(c.envelopeTo, c.recipient) \o CRLF

OuterSubject(c) == <<"Subject: ">> \o EnvelopeValue(c.envelopeSubject, c.subject) \o CRLF

OuterAutoSubmitted == <<"Auto-Submitted: auto-generated; type=acme">> \o CRLF

OuterMessageId == MessageIdLine

\* out.write(str): the memory buffer stores the encoded bytes.
BioWrite(buf, text) == buf \o Utf8Encode(text)

\* signmail as a function of its arguments (lines 33-58), when nothing fails.
signmail(c) ==
    LET b == InnerBody(c.text, c.sender, c.recipient, c.subject)
        sig == SmimeSign(<<c.privkey, c.pubkey>>, makebuf(b), PKCS7_DETACHED)
        o1 == BioWrite(<<>>, OuterFrom(c))
        o2 == BioWrite(o1, OuterTo(c))
        o3 == BioWrite(o2, OuterSubject(c))
        o4 == BioWrite(o3, OuterAutoSubmitted)
        o5 == BioWrite(o4, OuterMessageId)
    IN  SmimeWrite(o5, sig, makebuf(b))

(***************************************************************************)
(* The module-level call sites, lines 60-118.                              *)
(***************************************************************************)
Call(path, text, sender, recipient, subject, privkey, pubkey, eFrom, eTo, eSubject) ==
    [path |-> path, text |-> text, sender |-> sender, recipient |-> recipient,
     subject |-> subject, privkey |-> privkey, pubkey |-> pubkey,
     envelopeFrom |-> eFrom, envelopeTo |-> eTo, envelopeSubject |-> eSubject]

ChallengeText == <<"This is an automatically generated ACME challenge.">>

ValidCa == <<"valid-ca@example.com">>

Recipient == <<"recipient@example.org">>

AcmeSubject == <<"ACME: LgYemJLy3F1LDkiJrdIGbEzyFJyOyf6vBdyZ1TG3sME=">>

ValidSignerKey == "src/test/resources/valid-signer-privkey.pem"

ValidSignerCert == "src/test/resources/valid-signer.pem"

NosanKey == "src/test/resources/valid-signer-nosan-privkey.pem"

NosanCert == "src/test/resources/valid-signer-nosan.pem"

InvalidSignerKey == "src/test/resources/invalid-signer-privkey.pem"

InvalidSignerCert == "src/test/resources/invalid-signer.pem"

ValidMail ==
    Call("src/test/resources/email/valid-mail.eml",
         ChallengeText, ValidCa, Recipient, AcmeSubject,
         ValidSignerKey, ValidSignerCert, None, None, None)

\* Variant: the call site names the invalid-signer key material.
InvalidCertMismatchOtherKey ==
    Call("src/test/resources/email/invalid-cert-mismatch.eml",
         ChallengeText, <<"different-ca@example.com">>, Recipient, AcmeSubject,
         InvalidSignerKey, InvalidSignerCert,
         Some(<<"different-ca@example.org">>), None, None)

InvalidCertMismatch ==
    Call("src/test/resources/email/invalid-cert-mismatch.eml",
         ChallengeText, <<"different-ca@example.com">>, Recipient, AcmeSubject,
         ValidSignerKey, ValidSignerCert,
         Some(<<"different-ca@example.org">>), None, None)

InvalidNosan ==
    Call("src/test/resources/email/invalid-nosan.eml",
         ChallengeText, ValidCa, Recipient, AcmeSubject,
         NosanKey, NosanCert, None, None, None)

InvalidSignedMail ==
    Call("src/test/resources/email/invalid-signed-mail.eml",
         ChallengeText, ValidCa, Recipient, AcmeSubject,
         InvalidSignerKey, InvalidSignerCert, None, None, None)

InvalidProtectedMailFrom ==
    Call("src/test/resources/email/invalid-protected-mail-from.eml",
         ChallengeText, ValidCa, Recipient, AcmeSubject,
         ValidSignerKey, ValidSignerCert,
         Some(<<"tampered-ca@example.org">>), None, None)

\* Variant: the call site changes the inner recipient instead of the envelope.
InvalidProtectedMailToInner ==
    Call("src/test/resources/email/invalid-protected-mail-to.eml",
         ChallengeText, ValidCa, <<"tampered-recipient@example.com">>, AcmeSubject,
         ValidSignerKey, ValidSignerCert,
         None, None, None)

InvalidProtectedMailTo ==
    Call("src/test/resources/email/invalid-protected-mail-to.eml",
         ChallengeText, ValidCa, Recipient, AcmeSubject,
         ValidSignerKey, ValidSignerCert,
         None, Some(<<"tampered-recipient@example.com">>), None)

InvalidProtectedMailSubject ==
    Call("src/test/resources/email/invalid-protected-mail-subject.eml",
         ChallengeText, ValidCa, Recipient, AcmeSubject,
         ValidSignerKey, ValidSignerCert,
         None, None, Some(<<"ACME: aDiFfErEnTtOkEn">>))

\* Variant: a copied call site still names the file of the one it was copied from.
ScriptSharedPath ==
    <<ValidMail, InvalidCertMismatch, InvalidNosan, InvalidSignedMail,
      InvalidProtectedMailFrom,
      [InvalidProtectedMailTo EXCEPT !.path = InvalidProtectedMailFrom.path],
      InvalidProtectedMailSubject>>

\* The call sites in the order the script has them.
Script ==
    <<ValidMail, InvalidCertMismatch, InvalidNosan, InvalidSignedMail,
      InvalidProtectedMailFrom, InvalidProtectedMailTo, InvalidProtectedMailSubject>>

(***************************************************************************)
(* The file system.                                                        *)
(***************************************************************************)
NoFile == ""

Absent == [exists |-> FALSE, data |-> <<>>]

\* A file left by an earlier run, or key material.
OldFile == [exists |-> TRUE, data |-> <<"<earlier content>">>]

EmptyFile == [exists |-> TRUE, data |-> <<>>]

OutPaths(cs) == {cs[i].path : i \in 1..Len(cs)}

KeyPaths(cs) == {cs[i].privkey : i \in 1..Len(cs)} \cup {cs[i].pubkey : i \in 1..Len(cs)}

Remaining == (1..Len(calls)) \ done

Min(S) == CHOOSE x \in S : \A y \in S : x <= y

Positions(seq, x) == {i \in 1..Len(seq) : seq[i] = x}

Has(seq, x) == Positions(seq, x) # {}

First(seq, x) == Min(Positions(seq, x))

(***************************************************************************)
(* Initial states.                                                         *)
(***************************************************************************)
InitRun(cs, inOrder, files) ==
    /\ calls = cs
    /\ ordered = inOrder
    /\ fs0 = files
    /\ fs = files
    /\ done = {}
    /\ cur = 0
    /\ pc = "open"
    /\ status = "running"
    /\ raised = <<>>
    /\ w = NoFile
    /\ body = <<>>
    /\ s = None
    /\ p7 = None
    /\ out = <<>>
    /\ ret = <<>>
    /\ signlog = [i \in 1..Len(cs) |-> None]

\* The key material exists; each output file is absent or left by an earlier run.
Files(cs, olds) ==
    [p \in OutPaths(cs) \cup KeyPaths(cs) |->
        IF p \in KeyPaths(cs) \/ p \in olds THEN OldFile ELSE Absent]

\* The script as written, run from any state of the output directory.
Init ==
    \E olds \in SUBSET OutPaths(Script) : InitRun(Script, TRUE, Files(Script, olds))

\* The call sites of the script, run in any order.
InitAnyOrder ==
    \E olds \in {{}, OutPaths(Script)} : InitRun(Script, FALSE, Files(Script, olds))

\* Strings over the alphabet {"x", U+00F6} of at most n characters.
RECURSIVE Strings(_)
Strings(n) ==
    IF n = 0 THEN {<<>>}
    ELSE Strings(n - 1)
         \cup {Append(t, a) : t \in {u \in Strings(n - 1) : Len(u) = n - 1},
                              a \in {"x", NonAscii}}

Texts == Strings(MaxTextLen)

Senders == {<<"a@example.com">>, <<NonAscii, "@example.com">>}

Recipients == {<<"b@example.org">>, <<"c@example.org", NonAscii>>}

Subjects == {<<"S">>, <<"ACME: ", NonAscii>>}

KeyPairs == {<<ValidSignerKey, ValidSignerCert>>, <<InvalidSignerKey, InvalidSignerCert>>}

EnvelopeFroms ==
    {None, Some(<<>>), Some(<<"a@example.com">>), Some(<<"t@example.org">>)}

EnvelopeTos == {None, Some(<<NonAscii, "@example.org">>)}

EnvelopeSubjects == {None, Some(<<"S">>), Some(<<"T">>)}

\* Two calls of signmail with arbitrary arguments that differ only in the
\* envelope overrides (and the file the caller writes to): the first gives none.
InitCalls ==
    \E text \in Texts, sender \in Senders, recipient \in Recipients,
       subject \in Subjects, key \in KeyPairs,
       eFrom \in EnvelopeFroms, eTo \in EnvelopeTos, eSubject \in EnvelopeSubjects :
        LET cs == <<Call(ValidMail.path, text, sender, recipient, subject,
                         key[1], key[2], None, None, None),
                    Call(InvalidProtectedMailFrom.path, text, sender, recipient, subject,
                         key[1], key[2], eFrom, eTo, eSubject)>>
        IN  InitRun(cs, TRUE, Files(cs, {}))

(***************************************************************************)
(* An exception: nothing in the script catches it.  Leaving the with block *)
(* closes the file if it is open, and the interpreter exits.               *)
(***************************************************************************)
\* Variant: the failure is caught and logged, and the script goes on.
RaiseAndContinue(kind) ==
    /\ status' = "running"
    /\ raised' = Append(raised, kind)
    /\ w' = NoFile
    /\ pc' = "open"
    /\ UNCHANGED <<calls, ordered, fs0, done>>

Raise(kind) ==
    /\ status' = "failed"
    /\ raised' = Append(raised, kind)
    /\ w' = NoFile
    /\ pc' = "exit"
    /\ UNCHANGED <<calls, ordered, fs0, done>>

(***************************************************************************)
(* with open(path, 'wb') as w: lines 60, 68, 77, 85, 93, 102, 111.         *)
(***************************************************************************)
NextSite(i) ==
    /\ status = "running"
    /\ pc = "open"
    /\ i \in Remaining
    /\ ordered => i = Min(Remaining)

\* Variant: the file is opened for appending ('ab').
OpenForAppend(files, path) == [files EXCEPT ![path].exists = TRUE]

Truncate(files, path) == [files EXCEPT ![path] = EmptyFile]

OpenFile(i) ==
    /\ NextSite(i)
    /\ cur' = i
    /\ fs' = Truncate(fs, calls[i].path)
    /\ w' = calls[i].path
    /\ pc' = "body"
    /\ UNCHANGED <<calls, ordered, fs0, done, status, raised, locals, signlog>>

OpenFileFails(i) ==
    /\ NextSite(i)
    /\ cur' = i
    /\ Raise("IOError")
    /\ UNCHANGED <<fs, locals, signlog>>

(***************************************************************************)
(* signmail, lines 33-58.                                                  *)
(***************************************************************************)
At(label) == status = "running" /\ pc = label

Goto(label) ==
    /\ pc' = label
    /\ UNCHANGED <<calls, ordered, fs0, fs, done, cur, status, raised, w>>

\* lines 35-44
BuildBody ==
    /\ At("body")
    /\ body' = InnerBody(calls[cur].text, calls[cur].sender,
                         calls[cur].recipient, calls[cur].subject)
    /\ Goto("load_key")
    /\ UNCHANGED <<s, p7, out, ret, signlog>>

\* lines 46-47
LoadKey ==
    /\ At("load_key")
    /\ s' = <<calls[cur].privkey, calls[cur].pubkey>>
    /\ Goto("sign")
    /\ UNCHANGED <<body, p7, out, ret, signlog>>

LoadKeyFails ==
    /\ At("load_key")
    /\ Raise("KeyLoadError")
    /\ UNCHANGED <<fs, cur, locals, signlog>>

\* Variant: the complete message, outer From header first, is handed to s.sign.
SignInputWithEnvelope == makebuf(OuterFrom(calls[cur]) \o body)

\* line 48
SignInput == makebuf(body)

Sign ==
    /\ At("sign")
    /\ p7' = Some(SmimeSign(s, SignInput, PKCS7_DETACHED))
    /\ signlog' = [signlog EXCEPT ![cur] =
                       Some([content |-> SignInput, key |-> s, flags |-> PKCS7_DETACHED])]
    /\ Goto("out_from")
    /\ UNCHANGED <<body, s, out, ret>>

SignFails ==
    /\ At("sign")
    /\ Raise("SigningError")
    /\ UNCHANGED <<fs, cur, locals, signlog>>

OutWrite(label, text, next) ==
    /\ At(label)
    /\ out' = BioWrite(out, text)
    /\ Goto(next)
    /\ UNCHANGED <<body, s, p7, ret, signlog>>

\* lines 50-51
OutFrom == OutWrite("out_from", OuterFrom(calls[cur]), "out_to")

\* line 52
OutTo == OutWrite("out_to", OuterTo(calls[cur]), "out_subject")

\* line 53
OutSubject == OutWrite("out_subject", OuterSubject(calls[cur]), "out_auto")

\* line 54
OutAutoSubmitted == OutWrite("out_auto", OuterAutoSubmitted, "out_msgid")

\* line 55
OutMessageId == OutWrite("out_msgid", OuterMessageId, "smime_write")

\* Variant: the payload text instead of the body is handed to s.write.
WriteDataText == makebuf(calls[cur].text)

\* line 56
WriteData == makebuf(body)

SmimeWriteOut ==
    /\ At("smime_write")
    /\ out' = SmimeWrite(out, p7[1], WriteData)
    /\ Goto("return")
    /\ UNCHANGED <<body, s, p7, ret, signlog>>

\* Variant: out is a buffer shared by all calls and keeps what it was given.
ReturnSharedOut ==
    /\ At("return")
    /\ ret' = out
    /\ body' = <<>>
    /\ s' = None
    /\ p7' = None
    /\ out' = out
    /\ Goto("file_write")
    /\ UNCHANGED signlog

\* line 58: the value goes to the caller, the locals go out of scope
Return ==
    /\ At("return")
    /\ ret' = out
    /\ body' = <<>>
    /\ s' = None
    /\ p7' = None
    /\ out' = <<>>
    /\ Goto("file_write")
    /\ UNCHANGED signlog

(***************************************************************************)
(* w.write(...) and the end of the with block.                             *)
(***************************************************************************)
FileWrite ==
    /\ At("file_write")
    /\ fs' = [fs EXCEPT ![w].data = @ \o ret]
    /\ ret' = <<>>
    /\ pc' = "close"
    /\ UNCHANGED <<calls, ordered, fs0, done, cur, status, raised, w,
                   body, s, p7, out, signlog>>

\* The write fails after a proper prefix of the data has reached the file:
\* nothing, the first chunk, the outer headers, or all but the last chunk.
PartialWrites(data) ==
    {SubSeq(data, 1, k) : k \in {0, 1, First(data, MultipartBegin) - 1, Len(data) - 1}}

FileWriteFails ==
    /\ At("file_write")
    /\ \E part \in PartialWrites(ret) : fs' = [fs EXCEPT ![w].data = @ \o part]
    /\ Raise("IOError")
    /\ UNCHANGED <<cur, locals, signlog>>

AfterClose == IF Remaining \ {cur} = {} THEN "done" ELSE "running"

CloseFile ==
    /\ At("close")
    /\ w' = NoFile
    /\ done' = done \cup {cur}
    /\ status' = AfterClose
    /\ pc' = IF AfterClose = "done" THEN "exit" ELSE "open"
    /\ UNCHANGED <<calls, ordered, fs0, fs, cur, raised, locals, signlog>>

Next ==
    \/ \E i \in 1..Len(calls) : OpenFile(i)
    \/ \E i \in 1..Len(calls) : OpenFileFails(i)
    \/ BuildBody
    \/ LoadKey
    \/ LoadKeyFails
    \/ Sign
    \/ SignFails
    \/ OutFrom
    \/ OutTo
    \/ OutSubject
    \/ OutAutoSubmitted
    \/ OutMessageId
    \/ SmimeWriteOut
    \/ Return
    \/ FileWrite
    \/ FileWriteFails
    \/ CloseFile

\* The script as written.
Spec == Init /\ [][Next]_vars

\* The call sites in any order.
SpecAnyOrder == InitAnyOrder /\ [][Next]_vars

\* signmail on arbitrary arguments.
SpecCalls == InitCalls /\ [][Next]_vars

(***************************************************************************)
(* Reading a message back, as the consumer of a fixture does.              *)
(***************************************************************************)
\* [lines, rest]: the CRLF-terminated lines of a str and what follows the last CRLF.
RECURSIVE SplitCRLF(_, _, _)
SplitCRLF(str, line, lines) ==
    IF str = <<>> THEN [lines |-> lines, rest |-> line]
    ELSE IF Len(str) >= 2 /\ str[1] = CR /\ str[2] = LF
         THEN SplitCRLF(Tail(Tail(str)), <<>>, Append(lines, line))
         ELSE SplitCRLF(Tail(str), Append(line, Head(str)), lines)

Lines(str) == SplitCRLF(str, <<>>, <<>>).lines

Rest(str) == SplitCRLF(str, <<>>, <<>>).rest

\* v occurs in seq as a contiguous, non-empty run of chunks.
Occurs(v, seq) ==
    /\ v # <<>>
    /\ \E k \in 1..Len(seq) : k + Len(v) - 1 <= Len(seq) /\ SubSeq(seq, k, k + Len(v) - 1) = v

\* The parts of a generated message (bytes).
OuterBlock(msg) == SubSeq(msg, 1, First(msg, MultipartBegin) - 1)

ContentPart(msg) ==
    SubSeq(msg, First(msg, MultipartBegin) + 1, First(msg, MultipartSignature) - 1)

SignaturePart(msg) == msg[First(msg, MultipartSignature) + 1]

WellFormed(msg) ==
    /\ Cardinality(Positions(msg, MultipartBegin)) = 1
    /\ Cardinality(Positions(msg, MultipartSignature)) = 1
    /\ Cardinality(Positions(msg, MultipartEnd)) = 1
    /\ First(msg, MultipartBegin) < First(msg, MultipartSignature)
    /\ First(msg, MultipartSignature) + 2 = First(msg, MultipartEnd)
    /\ First(msg, MultipartEnd) = Len(msg)

\* The value of the first header line of that name among the lines.
HeaderValue(lines, name) ==
    LET hits == {i \in 1..Len(lines) : lines[i] # <<>> /\ Head(lines[i]) = name}
    IN  IF hits = {} THEN <<"<no such header>">> ELSE Tail(lines[Min(hits)])

\* The lines of the message inside the message/RFC822 part: what follows the
\* first blank line.
InnerLines(content) ==
    LET ls == Lines(Utf8Decode(content))
    IN  IF Has(ls, <<>>) THEN SubSeq(ls, First(ls, <<>>) + 1, Len(ls)) ELSE <<>>

InnerHeaders(content) ==
    LET ls == InnerLines(content)
    IN  IF Has(ls, <<>>) THEN SubSeq(ls, 1, First(ls, <<>>) - 1) ELSE ls

InnerText(content) ==
    LET ls == InnerLines(content)
    IN  IF Has(ls, <<>>) /\ First(ls, <<>>) < Len(ls)
        THEN ls[First(ls, <<>>) + 1] ELSE <<"<no payload>">>

OuterLines(msg) == Lines(Utf8Decode(OuterBlock(msg)))

Signed(i) == signlog[i] # None

InSignmail ==
    pc \in {"body", "load_key", "sign", "out_from", "out_to", "out_subject",
            "out_auto", "out_msgid", "smime_write", "return"}

Site(call) == CHOOSE i \in 1..Len(calls) : calls[i].path = call.path

FileOf(i) == fs[calls[i].path]

\* The messages to look at in a state: the one signmail has just returned, the
\* one just written to its file and, when the run is over, those of all files.
Produced ==
    IF pc \in {"file_write", "close"} THEN {cur}
    ELSE IF status = "done" THEN done
    ELSE {}

Message(i) == IF pc = "file_write" THEN ret ELSE FileOf(i).data

SameInner(c, d) ==
    /\ c.text = d.text
    /\ c.sender = d.sender
    /\ c.recipient = d.recipient
    /\ c.subject = d.subject

Overrides(c) == {c.envelopeFrom, c.envelopeTo, c.envelopeSubject} \ {None}

(***************************************************************************)
(* C1: whatever envelope overrides are given, the content handed to s.sign *)
(* is exactly the inner body built from text, sender, recipient and        *)
(* subject; no envelope value that is not also an inner value occurs in    *)
(* it; nothing is in the output buffer until signing has completed; and    *)
(* calls that differ only in their overrides sign the same content.        *)
(***************************************************************************)
C1_SignsInnerBodyOnly ==
    /\ \A i \in 1..Len(calls) : Signed(i) =>
        LET c == calls[i]
            content == signlog[i][1].content
        IN  /\ content = Utf8Encode(InnerBody(c.text, c.sender, c.recipient, c.subject))
            /\ \A o \in Overrides(c) :
                   o[1] \notin {c.text, c.sender, c.recipient, c.subject}
                       => ~Occurs(Utf8Encode(o[1]), content)
    /\ pc \in {"open", "body", "load_key", "sign"} => out = <<>>
    /\ out # <<>> => InSignmail /\ Signed(cur) /\ p7 # None
    /\ \A i, j \in 1..Len(calls) :
           Signed(i) /\ Signed(j) /\ SameInner(calls[i], calls[j])
               => signlog[i][1].content = signlog[j][1].content

C1_Witness ==
    /\ pc = "file_write"
    /\ cur = 2
    /\ Signed(1)
    /\ Signed(2)
    /\ calls[2].envelopeFrom = Some(<<"t@example.org">>)
    /\ calls[2].envelopeTo = Some(<<NonAscii, "@example.org">>)
    /\ calls[2].envelopeSubject = Some(<<"T">>)
    /\ Occurs(<<"t@example.org">>, ret)

(***************************************************************************)
(* C2: the outer header block of a message is From, To, Subject,           *)
(* Auto-Submitted and Message-ID in this order, all before the             *)
(* multipart/signed structure; each of From, To and Subject carries the    *)
(* override when it is given and the inner value otherwise, field by       *)
(* field; the Message-ID line is the one of the inner body.                *)
(***************************************************************************)
C2_OuterHeaders ==
    \A i \in Produced :
        LET c == calls[i]
            msg == Message(i)
        IN  /\ WellFormed(msg)
            /\ Rest(Utf8Decode(OuterBlock(msg))) = <<>>
            /\ OuterLines(msg) =
                 << <<"From: ">> \o (IF c.envelopeFrom = None THEN c.sender
                                     ELSE c.envelopeFrom[1]),
                    <<"To: ">> \o (IF c.envelopeTo = None THEN c.recipient
                                   ELSE c.envelopeTo[1]),
                    <<"Subject: ">> \o (IF c.envelopeSubject = None THEN c.subject
                                        ELSE c.envelopeSubject[1]),
                    <<"Auto-Submitted: auto-generated; type=acme">>,
                    <<"Message-ID: <A2299BB.FF7788@example.org>">> >>
            /\ LET inner == InnerHeaders(ContentPart(msg))
                   id == OuterLines(msg)[5]
               IN  \E k \in 1..Len(inner) : inner[k] = id

C2_Witness ==
    /\ status = "done"
    /\ 2 \in done
    /\ calls[2].envelopeFrom = Some(<<>>)
    /\ calls[2].envelopeTo = None
    /\ calls[2].envelopeSubject = Some(<<"T">>)
    /\ calls[2].subject = <<"S">>
    /\ OuterLines(FileOf(2).data)[1] = <<"From: ">>
    /\ OuterLines(FileOf(2).data)[2] = <<"To: ", "b@example.org">>
    /\ OuterLines(FileOf(2).data)[3] = <<"Subject: ", "T">>

(***************************************************************************)
(* C8: the inner body is the lines Content-Type: message/RFC822;           *)
(* forwarded=no, blank, From, To, Subject, Message-ID, MIME-Version,       *)
(* Content-Type: text/plain, blank and the payload text, every one of them *)
(* ended by CRLF, with sender, recipient and subject verbatim.             *)
(***************************************************************************)
C8_InnerBodyLayout ==
    body # <<>> =>
        LET c == calls[cur]
            ls == Lines(body)
        IN  /\ ls =
                 << <<"Content-Type: message/RFC822; forwarded=no">>,
                    <<>>,
                    <<"From: ">> \o c.sender,
                    <<"To: ">> \o c.recipient,
                    <<"Subject: ">> \o c.subject,
                    <<"Message-ID: <A2299BB.FF7788@example.org>">>,
                    <<"MIME-Version: 1.0">>,
                    <<"Content-Type: text/plain; charset=utf-8">>,
                    <<>>,
                    c.text >>
            /\ Rest(body) = <<>>
            /\ \A k \in 1..Len(ls) : ~Has(ls[k], CR) /\ ~Has(ls[k], LF)

C8_Witness ==
    /\ pc = "sign"
    /\ cur = 2
    /\ calls[2].text = <<NonAscii>>
    /\ calls[2].sender = <<NonAscii, "@example.com">>
    /\ calls[2].envelopeFrom = Some(<<"t@example.org">>)
    /\ Len(Lines(body)) = 10

(***************************************************************************)
(* C9: the content part of a generated message is the content that was     *)
(* handed to s.sign, its signature part is the signature made over it, and *)
(* reading the inner message back gives the sender, recipient, subject and *)
(* text that signmail was given, whatever the envelope overrides.          *)
(***************************************************************************)
C9_RoundTrip ==
    \A i \in Produced :
        LET c == calls[i]
            msg == Message(i)
            content == ContentPart(msg)
            headers == InnerHeaders(content)
        IN  /\ Signed(i)
            /\ content = signlog[i][1].content
            /\ SignaturePart(msg) =
                   SmimeSign(signlog[i][1].key, signlog[i][1].content, signlog[i][1].flags)
            /\ HeaderValue(headers, "From: ") = c.sender
            /\ HeaderValue(headers, "To: ") = c.recipient
            /\ HeaderValue(headers, "Subject: ") = c.subject
            /\ InnerText(content) = c.text

C9_Witness ==
    /\ status = "done"
    /\ 2 \in done
    /\ calls[2].text = <<NonAscii>>
    /\ calls[2].subject = <<"ACME: ", NonAscii>>
    /\ calls[2].envelopeSubject = Some(<<"T">>)
    /\ calls[2].envelopeFrom = Some(<<"t@example.org">>)
    /\ Has(ContentPart(FileOf(2).data), "0xC3")
    /\ InnerText(ContentPart(FileOf(2).data)) = <<NonAscii>>

ValidSignerPair == <<ValidSignerKey, ValidSignerCert>>

Fields == {"From: ", "To: ", "Subject: "}

\* The fields in which the outer envelope of a message differs from the
\* headers of its signed inner message.
Tampered(msg) ==
    LET outer == OuterLines(msg)
        inner == InnerHeaders(ContentPart(msg))
    IN  {f \in Fields : HeaderValue(outer, f) # HeaderValue(inner, f)}

ProtectedField(i) ==
    IF i = Site(InvalidProtectedMailFrom) THEN "From: "
    ELSE IF i = Site(InvalidProtectedMailTo) THEN "To: "
    ELSE "Subject: "

ProtectedSites ==
    {Site(InvalidProtectedMailFrom), Site(InvalidProtectedMailTo),
     Site(InvalidProtectedMailSubject)}

(***************************************************************************)
(* C3: in each of the files invalid-protected-mail-from, -to and -subject  *)
(* the outer envelope differs from the signed inner headers in exactly the *)
(* one field From, To or Subject respectively; the signed content is the   *)
(* one of valid-mail.eml and is signed with the same valid-signer pair.    *)
(***************************************************************************)
C3_ProtectedMailTamper ==
    \A i \in ProtectedSites \cap Produced :
        LET msg == Message(i)
            valid == Site(ValidMail)
        IN  /\ Tampered(msg) = {ProtectedField(i)}
            /\ valid \in done
            /\ ContentPart(msg) = ContentPart(FileOf(valid).data)
            /\ signlog[i][1].content = signlog[valid][1].content
            /\ signlog[i][1].key = signlog[valid][1].key
            /\ signlog[i][1].key = ValidSignerPair

C3_Witness ==
    /\ status = "done"
    /\ Tampered(FileOf(5).data) = {"From: "}
    /\ Tampered(FileOf(6).data) = {"To: "}
    /\ Tampered(FileOf(7).data) = {"Subject: "}
    /\ Tampered(FileOf(1).data) = {}
    /\ HeaderValue(OuterLines(FileOf(6).data), "To: ") = <<"tampered-recipient@example.com">>

(***************************************************************************)
(* C4, as stated: invalid-cert-mismatch.eml and invalid-signed-mail.eml    *)
(* are each signed with a key pair other than the one that signs           *)
(* valid-mail.eml.                                                         *)
(***************************************************************************)
C4_Original ==
    \A i \in {Site(InvalidCertMismatch), Site(InvalidSignedMail)} :
        Signed(i) /\ Signed(Site(ValidMail))
            => signlog[i][1].key # signlog[Site(ValidMail)][1].key

(***************************************************************************)
(* C4, amended: invalid-signed-mail.eml is signed with the invalid-signer  *)
(* pair and invalid-nosan.eml with the valid-signer-nosan pair, both       *)
(* different from the pair that signs valid-mail.eml;                      *)
(* invalid-cert-mismatch.eml is signed with the same valid-signer pair as  *)
(* valid-mail.eml (its inner sender is different-ca@example.com), and so   *)
(* are the three invalid-protected-mail files.                             *)
(***************************************************************************)
C4_KeyPairs ==
    \A i \in 1..Len(calls) : Signed(i) =>
        LET key == signlog[i][1].key
        IN  /\ i = Site(InvalidSignedMail) =>
                key = <<InvalidSignerKey, InvalidSignerCert>> /\ key # ValidSignerPair
            /\ i = Site(InvalidNosan) =>
                key = <<NosanKey, NosanCert>> /\ key # ValidSignerPair
            /\ i \notin {Site(InvalidSignedMail), Site(InvalidNosan)} =>
                key = ValidSignerPair
            /\ i = Site(InvalidCertMismatch) =>
                /\ key = signlog[Site(ValidMail)][1].key
                /\ HeaderValue(InnerHeaders(signlog[i][1].content), "From: ")
                       = <<"different-ca@example.com">>

C4_Witness ==
    /\ status = "done"
    /\ signlog[2][1].key = signlog[1][1].key
    /\ signlog[4][1].key # signlog[1][1].key
    /\ signlog[3][1].key # signlog[1][1].key

Written == {p \in DOMAIN fs : fs[p] # fs0[p]}

(***************************************************************************)
(* C5, as stated: a run that completes has written exactly six files.      *)
(***************************************************************************)
C5_Original == status = "done" => Cardinality(Written) = 6

(***************************************************************************)
(* C5, amended: a run that completes has written exactly seven .eml files, *)
(* each at its own path, and each holds the result of exactly one signmail *)
(* call, the one of its call site (one multipart/signed message); no other *)
(* file is changed.                                                        *)
(***************************************************************************)
C5_SevenFiles ==
    status = "done" =>
        /\ Cardinality(Written) = 7
        /\ Written = OutPaths(calls)
        /\ \A i, j \in 1..Len(calls) : calls[i].path = calls[j].path => i = j
        /\ \A i \in 1..Len(calls) :
               /\ FileOf(i) = [exists |-> TRUE, data |-> signmail(calls[i])]
               /\ WellFormed(FileOf(i).data)

C5_Witness ==
    /\ status = "done"
    /\ done = 1..7
    /\ fs0[ValidMail.path] = OldFile
    /\ fs0[InvalidNosan.path] = Absent
    /\ FileOf(7).data = signmail(InvalidProtectedMailSubject)

(***************************************************************************)
(* C6: a failure of opening the file, loading the key, signing or writing  *)
(* the file ends the run in the failed state; it is the only exception of  *)
(* the run; the call sites after the failing one have done nothing (not    *)
(* signed, their files as before the run) and no step follows, so nothing  *)
(* is retried and the run does not end successfully.                       *)
(***************************************************************************)
C6_AbortState ==
    /\ raised # <<>> <=> status = "failed"
    /\ Len(raised) <= 1
    /\ status = "done" => raised = <<>> /\ done = 1..Len(calls)
    /\ status = "failed" =>
        /\ w = NoFile
        /\ pc = "exit"
        /\ done = 1..(cur - 1)
        /\ \A j \in (cur + 1)..Len(calls) : ~Signed(j) /\ FileOf(j) = fs0[calls[j].path]

\* C6: a failure aborts the run: the abort state holds always, and every step
\* starts in a running state, so none follows a failure.
C6_FailureAborts == []C6_AbortState /\ [][status = "running"]_vars

C6_Witness ==
    /\ status = "failed"
    /\ raised = <<"SigningError">>
    /\ cur = 3
    /\ done = {1, 2}
    /\ ~Signed(3)
    /\ fs0[calls[4].path] = OldFile

\* The files after the call sites k..Len(cs) have run in this order on files.
RECURSIVE RunInOrder(_, _, _)
RunInOrder(cs, k, files) ==
    IF k > Len(cs) THEN files
    ELSE RunInOrder(cs, k + 1,
                    [files EXCEPT ![cs[k].path] =
                        [exists |-> TRUE, data |-> signmail(cs[k])]])

(***************************************************************************)
(* C7: in whatever order the call sites run, a run that completes leaves   *)
(* every file with the content the run in script order leaves; a step      *)
(* changes no file but the output file of the call site it belongs to, no  *)
(* output file is key material another call reads, and every call starts   *)
(* with fresh locals.                                                      *)
(***************************************************************************)
C7_State ==
    /\ status = "done" => fs = RunInOrder(Script, 1, fs0)
    /\ pc = "open" => body = <<>> /\ s = None /\ p7 = None /\ out = <<>> /\ ret = <<>>
    /\ OutPaths(calls) \cap KeyPaths(calls) = {}
    /\ \A i, j \in 1..Len(calls) : calls[i].path = calls[j].path => i = j

C7_Step ==
    \A p \in DOMAIN fs : fs'[p] # fs[p] => p = calls[cur'].path /\ cur' \notin done

\* C7: the call sites are order-independent and share no state: the result
\* and freshness conditions hold always, and every step keeps to its own file.
C7_OrderIndependent == []C7_State /\ [][C7_Step]_vars

C7_Witness ==
    /\ status = "done"
    /\ ~ordered
    /\ cur = 1
    /\ fs = RunInOrder(Script, 1, fs0)
    /\ fs0[ValidMail.path] = OldFile

(***************************************************************************)
(* C10: the output file of a call site is open and empty from before its   *)
(* signmail call starts until signmail has returned; so when key loading   *)
(* or signing fails, that file exists and is empty, whatever it held       *)
(* before, the files of the earlier call sites hold their complete new     *)
(* content and the files of the later ones are as before the run.          *)
(***************************************************************************)
C10_OpenedBeforeSigning ==
    /\ status = "running" /\ (InSignmail \/ pc = "file_write") =>
        /\ w = calls[cur].path
        /\ FileOf(cur) = EmptyFile
    /\ status = "failed" /\ raised[1] \in {"KeyLoadError", "SigningError"} =>
        /\ FileOf(cur) = EmptyFile
        /\ \A j \in 1..(cur - 1) :
               FileOf(j) = [exists |-> TRUE, data |-> signmail(calls[j])]
        /\ \A j \in (cur + 1)..Len(calls) : FileOf(j) = fs0[calls[j].path]

C10_Witness ==
    /\ status = "failed"
    /\ raised = <<"KeyLoadError">>
    /\ cur = 4
    /\ fs0[calls[4].path] = OldFile
    /\ FileOf(4) = EmptyFile
    /\ fs0[calls[5].path] = OldFile
    /\ FileOf(5) = OldFile
    /\ FileOf(1).data = signmail(ValidMail)

====
